---- MODULE Spec2Model ----
(***************************************************************************)
(* escalade (optimized synchronous variant, src/src/sync.js): the upward   *)
(* walk from a start path through its ancestor directories, with the       *)
(* result cache (pathCache), the stat cache, the readdir cache and the     *)
(* single eviction queue cacheKeys that the two filesystem caches share.   *)
(*                                                                         *)
(* Strings are sequences of tokens ("/", ":", "..", names); the token set  *)
(* is prefix-free, so concatenation of token sequences is concatenation of *)
(* the strings they spell.                                                 *)
(*                                                                         *)
(* Spec runs the module with callbacks that are functions of their         *)
(* arguments; SpecExt runs it with callbacks that close over state, throw, *)
(* or call the exported function again from inside the walk.               *)
(***************************************************************************)
EXTENDS Integers, Sequences, FiniteSets, TLC

VARIABLES
    fs,            \* the filesystem: path -> "none" | "file" | "dir"
    pathCache,     \* Map: cacheKey -> result (a path or undefined)
    statCache,     \* Map: path -> cached Stats (isDirectory)
    readdirCache,  \* Map: path -> cached listing
    cacheKeys,     \* the one eviction queue used by addToCache
    stack,         \* activations of the exported function, innermost last
    completed,     \* the calls that have returned a value: <<start, cb, value>>
    failed,        \* the calls that have raised: <<start, cb>>
    ncalls,        \* number of calls made so far in this behaviour
    entered        \* the flag the re-entrant callback closes over

vars == <<fs, pathCache, statCache, readdirCache, cacheKeys, stack, completed,
          failed, ncalls, entered>>

----------------------------------------------------------------------------
(* Bounds of the model *)

\* sync.js:6 sets the capacity to 100; the model runs the same code with a
\* small capacity so that full stores and evictions are reachable.
MAX_CACHE_SIZE == 2

\* Number of calls of the exported function in one behaviour.
MaxCalls == 3

----------------------------------------------------------------------------
(* Strings and node:path *)

Last(s) == s[Len(s)]

\* String.prototype.split('/') followed by Array.prototype.pop():
\* the part of s after its last "/" (all of s if it has none).
SplitPop(s) ==
    LET slashes == {i \in 1..Len(s) : s[i] = "/"}
        lastSlash == IF slashes = {} THEN 0
                     ELSE CHOOSE i \in slashes : \A j \in slashes : j <= i
    IN SubSeq(s, lastSlash + 1, Len(s))

\* path.dirname (posix): the path up to the last "/" that has a name after
\* it; "//" when that "/" is the second character of a rooted path.
dirname(p) ==
    IF Len(p) = 0 THEN <<".">>
    ELSE LET hasRoot == p[1] = "/"
             ends == {i \in 2..Len(p) :
                         /\ p[i] = "/"
                         /\ \E j \in (i+1)..Len(p) : p[j] # "/"}
         IN IF ends = {} THEN (IF hasRoot THEN <<"/">> ELSE <<".">>)
            ELSE LET end == CHOOSE i \in ends : \A j \in ends : j <= i
                 IN IF hasRoot /\ end = 2 THEN <<"/", "/">>
                    ELSE SubSeq(p, 1, end - 1)

\* The segments of a path string: s.split('/'), as a sequence of strings.
RECURSIVE Segments(_)
Segments(s) ==
    LET slashes == {i \in 1..Len(s) : s[i] = "/"}
    IN IF slashes = {} THEN <<s>>
       ELSE LET i == CHOOSE k \in slashes : \A j \in slashes : k <= j
            IN <<SubSeq(s, 1, i - 1)>> \o Segments(SubSeq(s, i + 1, Len(s)))

\* normalizeString of node:path: drops "" and ".", and lets ".." remove the
\* segment before it (at the root ".." stays at the root).
RECURSIVE NormSegs(_, _)
NormSegs(segs, acc) ==
    IF segs = <<>> THEN acc
    ELSE LET h == Head(segs)
             t == Tail(segs)
         IN IF h = <<>> \/ h = <<".">> THEN NormSegs(t, acc)
            ELSE IF h = <<"..">>
                 THEN NormSegs(t, IF acc = <<>> THEN acc
                                  ELSE SubSeq(acc, 1, Len(acc) - 1))
                 ELSE NormSegs(t, Append(acc, h))

RECURSIVE JoinSegs(_)
JoinSegs(segs) ==
    IF segs = <<>> THEN <<>>
    ELSE <<"/">> \o Head(segs) \o JoinSegs(Tail(segs))

IsAbsolute(p) == Len(p) > 0 /\ p[1] = "/"

\* path.resolve(from, to) for an absolute `from`.
resolve(from, to) ==
    LET full == IF IsAbsolute(to) THEN to ELSE from \o <<"/">> \o to
        segs == NormSegs(Segments(full), <<>>)
    IN IF segs = <<>> THEN <<"/">> ELSE JoinSegs(segs)

----------------------------------------------------------------------------
(* The filesystem the calls run against *)

Root  == <<"/">>
DirA  == <<"/", "a">>
DirNM == <<"/", "a", "/", "node_modules">>
DirB  == <<"/", "a", "/", "node_modules", "/", "b">>
FileF == <<"/", "a", "/", "node_modules", "/", "b", "/", "f">>
PathT == <<"/", "a", "/", "t">>

\* process.cwd(), which resolve('.', start) resolves against.
Cwd == DirA

Universe == {Root, DirA, DirNM, DirB, FileF, PathT}

\* Entry names in the order readdir reports them.
NameOrder == << <<"a">>, <<"b">>, <<"f">>, <<"node_modules">>, <<"t">> >>

FsKind(f, p) == IF p \in DOMAIN f THEN f[p] ELSE "none"

StaticFs(tk) ==
    [p \in Universe |->
        IF p = PathT THEN tk
        ELSE IF p = FileF THEN "file" ELSE "dir"]

\* fs.statSync: throws when the path does not exist.
StatThrows(f, p) == FsKind(f, p) = "none"
StatIsDirectory(f, p) == FsKind(f, p) = "dir"

\* fs.readdirSync: throws unless the path is an existing directory.
ReaddirThrows(f, d) == FsKind(f, d) # "dir"
Child(d, n) == IF d = Root THEN d \o n ELSE d \o <<"/">> \o n
Readdir(f, d) == SelectSeq(NameOrder, LAMBDA n : FsKind(f, Child(d, n)) # "none")

----------------------------------------------------------------------------
(* JavaScript Map: entries in insertion order *)

EmptyMap == <<>>
MapKeys(m) == {m[i].k : i \in 1..Len(m)}
MapHas(m, key) == key \in MapKeys(m)
MapSize(m) == Len(m)
MapGet(m, key) == (m[CHOOSE i \in 1..Len(m) : m[i].k = key]).v

\* A set that drops every other entry.
MapSetClears(m, key, value) == <<[k |-> key, v |-> value]>>

\* Map.prototype.set: a present key keeps its place, a new key goes last.
MapSet(m, key, value) ==
    IF MapHas(m, key)
    THEN [i \in 1..Len(m) |-> IF m[i].k = key THEN [k |-> key, v |-> value] ELSE m[i]]
    ELSE Append(m, [k |-> key, v |-> value])

\* Map.prototype.delete: no effect when the key is absent.
MapDelete(m, key) == SelectSeq(m, LAMBDA e : e.k # key)

----------------------------------------------------------------------------
(* The caches of sync.js *)

SKIP_DIRS == { <<".git">>, <<"node_modules">> }

\* addToCache(cache, key, value): the new cache and the new cacheKeys.
\* Array.prototype.shift on an empty array yields undefined, which no cache
\* holds as a key.
addToCache(cache, keys, key, value) ==
    LET full    == MapSize(cache) >= MAX_CACHE_SIZE
        evicted == IF full /\ keys # <<>> THEN MapDelete(cache, Head(keys)) ELSE cache
        keys1   == IF full /\ keys # <<>> THEN Tail(keys) ELSE keys
    IN [cache |-> MapSet(evicted, key, value), keys |-> Append(keys1, key)]

\* getCachedStat(path) / getCachedReaddir(path) return null exactly when the
\* cache has no entry: a Stats object and an array (even an empty one) are
\* truthy, so `!stats` and `!files` test for the miss.
StatMissAlways(path) == TRUE
StatMiss(path) == ~MapHas(statCache, path)
ReaddirMiss(path) == ~MapHas(readdirCache, path)

----------------------------------------------------------------------------
(* Callbacks *)

\* What a callback hands back: undefined, false, or a string.
RetUndefined == [kind |-> "undefined", val |-> <<>>]
RetFalse     == [kind |-> "false", val |-> <<>>]
RetString(s) == [kind |-> "string", val |-> s]

\* The callback raised instead of handing back a value.
RetThrow     == [kind |-> "throw", val |-> <<>>]

\* if (tmp): undefined, false and the empty string are falsy.
Truthy(r) == r.kind = "string" /\ r.val # <<>>

Includes(files, n) == \E i \in 1..Len(files) : files[i] = n

Callbacks == {"never", "hasT", "abs"}

\* Callbacks whose behaviour is not a function of their text and arguments:
\* twinT and twinNM are one arrow function, (dir, files) =>
\* files.includes(name) && name, closed over name = 't' and over name =
\* 'node_modules'; boom throws; again, on its first invocation, sets the
\* flag it closes over, calls the exported function on the directory it was
\* given, with itself as the callback, and hands back undefined, and on
\* later invocations does what hasT does.
CallbacksExt == {"never", "twinT", "twinNM", "boom", "again"}

\* never is ()=>{} and tern is (d,f)=>f?"t":()=>{}, written without spaces:
\* the text of tern has a colon in it, the token "q" spells what precedes
\* the colon, (d,f)=>f?"t", and what follows the colon is the text of never.
CallbacksKey == {"never", "tern"}

\* callback.toString()
CbText(cb) ==
    CASE cb = "never" -> <<"n">>
      [] cb = "hasT"  -> <<"h">>
      [] cb = "abs"   -> <<"s">>
      [] cb \in {"twinT", "twinNM"} -> <<"c">>
      [] cb = "boom"  -> <<"x">>
      [] cb = "again" -> <<"r">>
      [] cb = "tern"  -> <<"q", ":", "n">>

\* callback(dir, files)
CbReturn(cb, dir, files) ==
    CASE cb = "never" -> RetUndefined
      [] cb = "hasT"  -> IF Includes(files, <<"t">>) THEN RetString(<<"t">>) ELSE RetFalse
      [] cb = "abs"   -> IF files = <<>>
                         THEN RetString(<<"/", "a", "/", "..", "/", "t">>)
                         ELSE IF Includes(files, <<"a">>)
                              THEN RetString(<<"/", "t">>)
                              ELSE RetFalse
      [] cb = "twinT" -> IF Includes(files, <<"t">>) THEN RetString(<<"t">>) ELSE RetFalse
      [] cb = "twinNM" -> IF Includes(files, <<"node_modules">>)
                          THEN RetString(<<"node_modules">>) ELSE RetFalse
      [] cb = "boom"  -> RetThrow
      [] cb = "again" -> IF Includes(files, <<"t">>) THEN RetString(<<"t">>) ELSE RetFalse
      [] cb = "tern"  -> RetString(<<"t">>)

\* The invocation of cb starts a call of the exported function.
Reenters(cb) == cb = "again" /\ ~entered

\* The start arguments the calls are made with.
Starts == { PathT, DirNM, <<"node_modules", "/", "b", "/", "f">>, <<"..">> }
StartsExt == { PathT, DirNM, <<".">> }

\* A path whose last name has a colon in it, /a:(d,f)=>f?"t": the name is
\* "a", ":" and the text that "q" spells; no such directory exists.
PathQ == <<"/", "a", ":", "q">>
StartsKey == { <<".">>, PathQ }

----------------------------------------------------------------------------
(* Activations of the exported function *)

\* The value a call returns: a path, or undefined.
Undefined == [def |-> FALSE, path |-> <<>>]
Path(p)   == [def |-> TRUE, path |-> p]

\* A key that tells apart callbacks with the same text.
cacheKeyByIdentity(dir, cb) == dir \o <<":">> \o <<cb>>

\* `${dir}:${callback.toString()}`
cacheKey(dir, cb) == dir \o <<":">> \o CbText(cb)

\* One activation.  start, cb: the arguments.  dir0: resolve('.', start).
\* dir, visited: the loop's variables.  pc: "walk" inside the loop,
\* "returned" / "threw" once the call has ended.  The other fields record
\* what the activation did: hit (served from pathCache), cold (all three
\* caches were empty when it began), kind0 (what dir0 was on the filesystem
\* when it began), statHit (the Stats came from statCache), isDir
\* (stats.isDirectory() as the call saw it), first
\* (dir on entry to the loop), called / rets (the callback's invocations and
\* what they handed back), listed (directories whose listing was obtained),
\* fresh (for each of them, whether readdirSync supplied the listing),
\* nStat / nReaddir (statSync / readdirSync calls made), iters (loop
\* iterations begun), skipped (ended by the SKIP_DIRS break), guard (ended
\* by the visited check), nested (calls of the exported function made by
\* its callback).
NewFrame(start, cb) ==
    [start |-> start, cb |-> cb, dir0 |-> resolve(Cwd, start),
     key |-> cacheKey(resolve(Cwd, start), cb),
     dir |-> resolve(Cwd, start), visited |-> {}, pc |-> "walk",
     result |-> Undefined, hit |-> FALSE,
     cold |-> pathCache = EmptyMap /\ statCache = EmptyMap /\ readdirCache = EmptyMap,
     kind0 |-> FsKind(fs, resolve(Cwd, start)), statHit |-> FALSE,
     isDir |-> FALSE, first |-> <<>>,
     called |-> <<>>, rets |-> <<>>, listed |-> <<>>, fresh |-> <<>>,
     nStat |-> 0, nReaddir |-> 0, iters |-> 0,
     skipped |-> FALSE, guard |-> FALSE, nested |-> 0]

Top == stack[Len(stack)]
SetTop(f) == [stack EXCEPT ![Len(stack)] = f]

\* A lookup that tests the cached value instead of the key's presence.
PathCacheHitTruthy(key) == MapHas(pathCache, key) /\ MapGet(pathCache, key).def

\* pathCache.has(cacheKey)
PathCacheHit(key) == MapHas(pathCache, key)

\* The file-to-parent step left out.
FirstDirKeepsFile(dir, isd) == dir

\* if (!stats.isDirectory()) dir = dirname(dir)
FirstDir(dir, isd) == IF isd THEN dir ELSE dirname(dir)

\* A missing start path taken for a file instead of raising.
StatSyncSwallows(f, p) == FALSE

\* statSync(dir) raises
StatSyncThrows(f, p) == StatThrows(f, p)

\* sync.js:47-65: resolve, result-cache lookup, stat, file-to-parent step, for
\* a call made with the activations `below` in progress and the eviction
\* queue `keys`.
Enter(below, keys, start, cb) ==
    LET f   == NewFrame(start, cb)
        dir == f.dir0
    IN IF PathCacheHit(f.key)
       THEN /\ stack' = Append(below, [f EXCEPT !.pc = "returned", !.hit = TRUE,
                                                !.result = MapGet(pathCache, f.key)])
            /\ statCache' = statCache
            /\ cacheKeys' = keys
       ELSE IF StatMiss(dir)
       THEN IF StatSyncThrows(fs, dir)
            THEN /\ stack' = Append(below, [f EXCEPT !.pc = "threw", !.nStat = 1])
                 /\ statCache' = statCache
                 /\ cacheKeys' = keys
            ELSE LET isd == StatIsDirectory(fs, dir)
                     c   == addToCache(statCache, keys, dir, isd)
                 IN /\ statCache' = c.cache
                    /\ cacheKeys' = c.keys
                    /\ stack' = Append(below,
                           [f EXCEPT !.nStat = 1, !.isDir = isd,
                                     !.dir = FirstDir(dir, isd),
                                     !.first = FirstDir(dir, isd)])
       ELSE LET isd == MapGet(statCache, dir)
            IN /\ stack' = Append(below,
                      [f EXCEPT !.isDir = isd, !.statHit = TRUE,
                                !.dir = FirstDir(dir, isd),
                                !.first = FirstDir(dir, isd)])
               /\ statCache' = statCache
               /\ cacheKeys' = keys

\* A call made by the program that uses the module; a call whose callback
\* will call again takes two of the behaviour's calls.
Call(start, cb) ==
    /\ stack = <<>>
    /\ ncalls + (IF Reenters(cb) THEN 2 ELSE 1) <= MaxCalls
    /\ ncalls' = ncalls + 1
    /\ Enter(stack, cacheKeys, start, cb)
    /\ UNCHANGED <<fs, pathCache, readdirCache, completed, failed, entered>>

\* The value resolved against the start path.
FoundFromStart(dir0, dir, tmp) == resolve(dir0, tmp.val)

\* const result = resolve(dir, tmp), with dir the directory being examined
\* (dir0 is where the call started).
Found(dir0, dir, tmp) == resolve(dir, tmp.val)

\* A step that climbs two levels.
NextDirTwoUp(dir) == dirname(dirname(dir))

\* const nextDir = dirname(dir)
NextDir(dir) == dirname(dir)

\* The test for the root left out.
AtRootNever(nextDir, dir) == FALSE

\* if (nextDir === dir) break
AtRoot(nextDir, dir) == nextDir = dir

\* A hit that moves the key to the young end of the eviction queue.
ReaddirHitRefreshes(dir) ==
    [cache |-> readdirCache,
     keys |-> Append(SelectSeq(cacheKeys, LAMBDA k : k # dir), dir)]

\* getCachedReaddir(dir) found the listing: the cache and the queue stay.
ReaddirHit(dir) == [cache |-> readdirCache, keys |-> cacheKeys]

\* A listing of a missing directory taken for empty instead of raising.
ReaddirSyncSwallows(f, d) == FALSE

\* readdirSync(dir) raises
ReaddirSyncThrows(f, d) == ReaddirThrows(f, d)

\* SKIP_DIRS.has(dirname(dir).split('/').pop())
SkipHere(dir) == SplitPop(dirname(dir)) \in SKIP_DIRS

\* An exhausted walk that hands back the directory it stopped at.
NotFoundReturnsDir(f) == [f EXCEPT !.pc = "returned", !.result = Path(f.dir)]

\* sync.js:101-102: the loop was left by a break.
NotFound(f) == [f EXCEPT !.pc = "returned", !.result = Undefined]

\* An exception of the callback recorded as "not found".
PathCacheAfterThrowStores(key) == MapSet(pathCache, key, Undefined)

\* sync.js:88: an exception of the callback leaves the function at once (there
\* is no try around the call), so pathCache stays as it is.
PathCacheAfterThrow(key) == pathCache

\* sync.js:88-98: the callback has handed tmp back to activation f, which
\* runs above the activations `below`.
AfterCallback(below, f, tmp) ==
    LET f3 == [f EXCEPT !.rets = Append(f.rets, tmp)]
    IN IF tmp = RetThrow
       THEN /\ stack' = Append(below, [f3 EXCEPT !.pc = "threw"])
            /\ pathCache' = PathCacheAfterThrow(f.key)
       ELSE IF Truthy(tmp)
       THEN \* lines 90-93
            LET result == Found(f.dir0, f.dir, tmp)
            IN /\ stack' = Append(below, [f3 EXCEPT !.pc = "returned",
                                                    !.result = Path(result)])
               /\ pathCache' = MapSet(pathCache, f.key, Path(result))
       ELSE LET nextDir == NextDir(f.dir)
            IN IF AtRoot(nextDir, f.dir)
               THEN \* line 97
                    /\ stack' = Append(below, NotFound(f3))
                    /\ pathCache' = MapSet(pathCache, f.key, Undefined)
               ELSE /\ stack' = Append(below, [f3 EXCEPT !.dir = nextDir])
                    /\ UNCHANGED pathCache

\* sync.js:70-99: one iteration of the loop, and what follows it when the
\* iteration leaves the loop.  When the callback calls the exported function
\* the step ends inside the callback (pc = "incb"), with the new activation
\* begun; Return completes the iteration.
Iterate ==
    /\ stack # <<>>
    /\ Top.pc = "walk"
    /\ LET f0    == Top
           dir   == f0.dir
           below == SubSeq(stack, 1, Len(stack) - 1)
       IN IF dir \in f0.visited
          THEN \* line 72
               /\ stack' = SetTop(NotFound([f0 EXCEPT !.guard = TRUE,
                                                      !.iters = f0.iters + 1]))
               /\ pathCache' = MapSet(pathCache, f0.key, Undefined)
               /\ UNCHANGED <<readdirCache, cacheKeys, statCache, ncalls, entered>>
          ELSE LET f1 == [f0 EXCEPT !.visited = f0.visited \cup {dir},
                                    !.iters = f0.iters + 1]
               IN IF ReaddirMiss(dir) /\ ReaddirSyncThrows(fs, dir)
                  THEN \* line 78 throws
                       /\ stack' = SetTop([f1 EXCEPT !.pc = "threw",
                                                     !.nReaddir = f1.nReaddir + 1])
                       /\ UNCHANGED <<pathCache, readdirCache, cacheKeys,
                                      statCache, ncalls, entered>>
                  ELSE LET miss  == ReaddirMiss(dir)
                           files == IF miss THEN Readdir(fs, dir)
                                    ELSE MapGet(readdirCache, dir)
                           c     == IF miss
                                    THEN addToCache(readdirCache, cacheKeys, dir, files)
                                    ELSE ReaddirHit(dir)
                           f2    == [f1 EXCEPT !.listed = Append(f1.listed, dir),
                                               !.fresh = Append(f1.fresh, miss),
                                               !.nReaddir = f1.nReaddir
                                                            + (IF miss THEN 1 ELSE 0)]
                           f3    == [f2 EXCEPT !.called = Append(f2.called, dir)]
                       IN /\ readdirCache' = c.cache
                          /\ IF SkipHere(dir)
                             THEN \* line 85
                                  /\ stack' = SetTop(NotFound([f2 EXCEPT !.skipped = TRUE]))
                                  /\ pathCache' = MapSet(pathCache, f0.key, Undefined)
                                  /\ cacheKeys' = c.keys
                                  /\ UNCHANGED <<statCache, ncalls, entered>>
                             ELSE IF Reenters(f0.cb)
                             THEN \* line 88, the callback calls back in
                                  /\ entered' = TRUE
                                  /\ ncalls' = ncalls + 1
                                  /\ Enter(Append(below, [f3 EXCEPT !.pc = "incb",
                                                                !.nested = @ + 1]),
                                           c.keys, dir, f0.cb)
                                  /\ UNCHANGED pathCache
                             ELSE /\ AfterCallback(below, f3, CbReturn(f0.cb, dir, files))
                                  /\ cacheKeys' = c.keys
                                  /\ UNCHANGED <<statCache, ncalls, entered>>
    /\ UNCHANGED <<fs, completed, failed>>

\* The caller receives the value, or the exception.  When the caller is a
\* callback of an activation in progress, the callback ends (it hands back
\* undefined, or lets the exception through) and that activation's
\* iteration is completed.
Return ==
    /\ stack # <<>>
    /\ Top.pc \in {"returned", "threw"}
    /\ completed' = IF Top.pc = "returned"
                    THEN completed \cup {<<Top.start, Top.cb, Top.result>>}
                    ELSE completed
    /\ failed' = IF Top.pc = "threw"
                 THEN failed \cup {<<Top.start, Top.cb>>}
                 ELSE failed
    /\ IF Len(stack) > 1
       THEN AfterCallback(SubSeq(stack, 1, Len(stack) - 2),
                          [stack[Len(stack) - 1] EXCEPT !.pc = "walk"],
                          IF Top.pc = "threw" THEN RetThrow ELSE RetUndefined)
       ELSE /\ stack' = SubSeq(stack, 1, Len(stack) - 1)
            /\ UNCHANGED pathCache
    /\ UNCHANGED <<fs, statCache, readdirCache, cacheKeys, ncalls, entered>>

\* Another process creates, removes or replaces /a/t, at any moment: between
\* calls, or during one, between two of its system calls.
FsChange(kind) ==
    /\ fs[PathT] # kind
    /\ fs' = [fs EXCEPT ![PathT] = kind]
    /\ UNCHANGED <<pathCache, statCache, readdirCache, cacheKeys, stack, completed,
                   failed, ncalls, entered>>

Init ==
    /\ fs \in {StaticFs(k) : k \in {"none", "file", "dir"}}
    /\ pathCache = EmptyMap
    /\ statCache = EmptyMap
    /\ readdirCache = EmptyMap
    /\ cacheKeys = <<>>
    /\ stack = <<>>
    /\ completed = {}
    /\ failed = {}
    /\ ncalls = 0
    /\ entered = FALSE

Next ==
    \/ \E start \in Starts, cb \in Callbacks : Call(start, cb)
    \/ Iterate
    \/ Return
    \/ \E kind \in {"none", "file", "dir"} : FsChange(kind)

Spec == Init /\ [][Next]_vars

\* The same module used with callbacks that close over state, throw, or call
\* back in.
NextExt ==
    \/ \E start \in StartsExt, cb \in CallbacksExt : Call(start, cb)
    \/ Iterate
    \/ Return
    \/ \E kind \in {"none", "file", "dir"} : FsChange(kind)

SpecExt == Init /\ [][NextExt]_vars

\* The same module used with a callback text and a start path that have a
\* colon in them.
NextKey ==
    \/ \E start \in StartsKey, cb \in CallbacksKey : Call(start, cb)
    \/ Iterate
    \/ Return
    \/ \E kind \in {"none", "file", "dir"} : FsChange(kind)

SpecKey == Init /\ [][NextKey]_vars

----------------------------------------------------------------------------
(* The implementation before the caches (benchmark/comparison.js) *)

Raised == [threw |-> TRUE, value |-> Undefined]
Gave(v) == [threw |-> FALSE, value |-> v]

\* The loop of escaladeSyncOriginal, from directory dir; ent is the flag of
\* the callback again when the iteration begins.  An invocation of again
\* that finds the flag unset sets it, calls the exported function of sync.js
\* on dir and hands back undefined; that call does not raise, dir having
\* just been listed, and its value is dropped.
RECURSIVE OriginalWalk(_, _, _, _)
OriginalWalk(f, dir, cb, ent) ==
    IF ReaddirThrows(f, dir) THEN Raised
    ELSE LET calls == cb = "again" /\ ~ent
             tmp   == IF calls THEN RetUndefined
                      ELSE CbReturn(cb, dir, Readdir(f, dir))
         IN IF tmp = RetThrow THEN Raised
            ELSE IF Truthy(tmp) THEN Gave(Path(resolve(dir, tmp.val)))
            ELSE IF dirname(dir) = dir THEN Gave(Undefined)
                 ELSE OriginalWalk(f, dirname(dir), cb, ent \/ calls)

\* escaladeSyncOriginal(start, callback) on filesystem f, with the flag of
\* again as it is.
escaladeSyncOriginal(f, start, cb) ==
    LET dir == resolve(Cwd, start)
    IN IF StatThrows(f, dir) THEN Raised
       ELSE OriginalWalk(f, IF StatIsDirectory(f, dir) THEN dir ELSE dirname(dir),
                         cb, entered)

----------------------------------------------------------------------------
(* Properties *)

Frames == {stack[i] : i \in 1..Len(stack)}

\* The call walked (was not served from pathCache) and returned a value.
Walked(f) == f.pc = "returned" /\ ~f.hit

\* The call ended on a truthy callback result.
Matched(f) == Walked(f) /\ f.rets # <<>> /\ Truthy(Last(f.rets))

\* path.normalize of an absolute path, and path.join.
Normalize(p) == resolve(Root, p)
Join(d, v) == Normalize(d \o <<"/">> \o v)

\* seq[1], seq[2], ... climb one level at a time.
Climbs(seq) ==
    \A i \in 1..(Len(seq) - 1) : seq[i+1] = dirname(seq[i]) /\ seq[i+1] # seq[i]

IsPrefix(a, b) == Len(a) <= Len(b) /\ SubSeq(b, 1, Len(a)) = a

\* C1 as stated: a truthy callback value v returned at directory d gives the
\* call's result: exactly v when v is absolute, d joined with v otherwise.
C1_AsStated ==
    \A f \in Frames : Matched(f) =>
        LET v == Last(f.rets).val
            d == Last(f.called)
        IN /\ f.result.def
           /\ IsAbsolute(v) => f.result.path = v
           /\ ~IsAbsolute(v) => f.result.path = Join(d, v)

\* C1 amended: a truthy callback value v returned at directory d gives the
\* call's result: v in normalized form when v is absolute (so exactly v when
\* v is already normalized), and d joined with v otherwise, d being the
\* directory under examination and not the start path.
C1_Resolved ==
    \A f \in Frames : Matched(f) =>
        LET v == Last(f.rets).val
            d == Last(f.called)
        IN /\ f.result.def
           /\ IsAbsolute(v) => f.result.path = Normalize(v)
           /\ IsAbsolute(v) /\ Normalize(v) = v => f.result.path = v
           /\ ~IsAbsolute(v) => f.result.path = Join(d, v)

\* A relative value was returned above the start directory.
C1_Witness ==
    \E f \in Frames :
        /\ Matched(f)
        /\ ~IsAbsolute(Last(f.rets).val)
        /\ Last(f.called) # f.dir0
        /\ f.result.path = Join(Last(f.called), Last(f.rets).val)

\* C2 as stated: a call not served from pathCache invokes the callback on the
\* first examined directory, then on each parent in turn, once each, and
\* stops at the first truthy result: every directory examined, from the
\* first one to the one the walk ends at, is one the callback was invoked on.
C2_AsStated ==
    \A f \in Frames : Walked(f) =>
        /\ f.called = f.listed
        /\ f.called # <<>>
        /\ f.called[1] = f.first
        /\ Climbs(f.called)
        /\ \A i \in 1..(Len(f.rets) - 1) : ~Truthy(f.rets[i])

\* C2 amended: in a call not served from pathCache the callback's invocations
\* are, in order, on the first examined directory, its parent, and so on,
\* once per directory; no invocation follows a truthy result, and a call
\* that ends on a truthy result has made as many invocations as there are
\* levels from the first examined directory to the matching one. A directory
\* at which the skip check ends the walk is examined without the callback
\* being invoked on it, so the invocations may stop one level short of the
\* examined directories, and there may be none.
C2_Order ==
    \A f \in Frames : ~f.hit =>
        /\ Climbs(f.listed)
        /\ f.listed # <<>> => f.listed[1] = f.first
        /\ IsPrefix(f.called, f.listed)
        /\ Len(f.rets) = Len(f.called)
        /\ Len(f.listed) - Len(f.called) = (IF f.skipped THEN 1 ELSE 0)
        /\ \A i \in 1..(Len(f.rets) - 1) : ~Truthy(f.rets[i])
        /\ (f.rets # <<>> /\ Truthy(Last(f.rets))) => f.pc = "returned"
        /\ Walked(f) /\ f.result.def =>
              /\ Matched(f)
              /\ Len(f.called) = Len(f.listed)

\* The callback was invoked on three levels and matched on the third.
C2_Witness ==
    \E f \in Frames :
        /\ Matched(f)
        /\ Len(f.called) = 3
        /\ f.called[1] = f.first
        /\ f.called[3] = dirname(dirname(f.first))

\* C3 as stated: if the resolved start path is a directory the first
\* directory examined is the start path; if it is a file the first directory
\* examined is its parent and the file is never passed to the callback.
C3_AsStated ==
    \A f \in Frames : (~f.hit /\ f.first # <<>>) =>
        /\ f.kind0 = "dir" => f.first = f.dir0
        /\ f.kind0 = "file" =>
              /\ f.first = dirname(f.dir0)
              /\ \A i \in 1..Len(f.called) : f.called[i] # f.dir0

\* C3 amended: the first directory examined is the resolved start path if the
\* metadata lookup for it reports a directory, and its parent otherwise, in
\* which case the start path is never passed to the callback. The lookup is
\* a stat of the filesystem when the stat cache has no entry for the path,
\* and then reports what the path is at the time of the call; otherwise it
\* is the cached entry, whatever the path has become since.
C3_FirstExamined ==
    \A f \in Frames : (~f.hit /\ f.first # <<>>) =>
        /\ f.first = (IF f.isDir THEN f.dir0 ELSE dirname(f.dir0))
        /\ ~f.isDir => \A i \in 1..Len(f.called) : f.called[i] # f.dir0
        /\ ~f.statHit =>
              /\ f.isDir = (f.kind0 = "dir")
              /\ f.kind0 = "dir" => f.first = f.dir0
              /\ f.kind0 = "file" => f.first = dirname(f.dir0)
        /\ f.listed # <<>> => f.listed[1] = f.first

\* A file was given, freshly stat'ed, and the callback ran on its parent.
C3_Witness ==
    \E f \in Frames :
        /\ ~f.hit /\ ~f.statHit
        /\ f.kind0 = "file"
        /\ f.called # <<>>
        /\ f.called[1] = dirname(f.dir0)

\* The callback was invoked up to the root and never returned a truthy value.
Exhausted(f) ==
    /\ f.called # <<>>
    /\ Last(f.called) = Root
    /\ \A i \in 1..Len(f.rets) : ~Truthy(f.rets[i])

\* C4: when the callback is falsy at every examined directory up to and
\* including the root, the call returns undefined and does not raise.
C4_ExhaustionReturnsUndefined ==
    \A f \in Frames : Exhausted(f) =>
        /\ f.pc = "returned"
        /\ f.result = Undefined

\* A walk of three levels ended at the root without a match.
C4_Witness ==
    \E f \in Frames :
        /\ Exhausted(f)
        /\ Len(f.called) = 3
        /\ f.pc = "returned"

\* C5: a call whose start and callback are those of a call that has already
\* returned a value returns that same value, from pathCache, with no stat,
\* no readdir and no callback invocation.
C5_Idempotent ==
    \A f \in Frames : \A c \in completed :
        (c[1] = f.start /\ c[2] = f.cb) =>
            /\ f.hit
            /\ f.pc = "returned"
            /\ f.result = c[3]
            /\ f.nStat = 0 /\ f.nReaddir = 0
            /\ f.called = <<>> /\ f.listed = <<>>

\* A repeated call whose first run found nothing.
C5_Witness ==
    \E f \in Frames : \E c \in completed :
        /\ c[1] = f.start /\ c[2] = f.cb
        /\ f.hit
        /\ f.result = Undefined

\* C6 as stated: a call whose start path does not exist when the call is made
\* raises; it returns neither undefined nor a path.
C6_AsStated ==
    \A f \in Frames : f.kind0 = "none" => f.pc # "returned"

\* C6 amended: a call whose start path does not exist when the call is made,
\* and for which pathCache has no entry under the call's key and statCache no
\* entry for the resolved start path, raises the error of statSync: it
\* returns nothing, invokes no callback and stores no result.
C6_MissingStartRaises ==
    \A f \in Frames : (f.kind0 = "none" /\ ~f.hit /\ ~f.statHit) =>
        /\ f.pc = "threw"
        /\ f.nStat = 1
        /\ f.called = <<>> /\ f.listed = <<>>
        /\ ~MapHas(pathCache, f.key)

\* A call on a missing path raised.
C6_Witness ==
    \E f \in Frames :
        /\ f.kind0 = "none" /\ ~f.hit /\ ~f.statHit
        /\ f.pc = "threw"

\* C7: run on empty caches, the call ends as escaladeSyncOriginal ends on the
\* same filesystem, start and callback: the same value, or both raise.
C7_SameAsOriginal ==
    \A f \in Frames : (f.cold /\ f.pc \in {"returned", "threw"}) =>
        LET o == escaladeSyncOriginal(fs, f.start, f.cb)
        IN /\ (f.pc = "threw") = o.threw
           /\ f.result = o.value

\* C8: the walk is abandoned by the skip check exactly at a directory whose
\* own name is in the skip set: the callback is never invoked on a directory
\* so named, and a walk abandoned by the skip check stands at one.
C8_SkipsByOwnName ==
    \A f \in Frames :
        /\ \A i \in 1..Len(f.called) : SplitPop(f.called[i]) \notin SKIP_DIRS
        /\ f.skipped => SplitPop(f.dir) \in SKIP_DIRS

\* C9: each of the three stores holds at most MAX_CACHE_SIZE entries.
C9_CapacityBound ==
    /\ MapSize(pathCache) <= MAX_CACHE_SIZE
    /\ MapSize(statCache) <= MAX_CACHE_SIZE
    /\ MapSize(readdirCache) <= MAX_CACHE_SIZE

\* A step that adds a key to a store at capacity removes from it exactly the
\* entry inserted earliest (a Map lists its entries in insertion order).
EvictsOldest(m, m2) ==
    (MapKeys(m2) \ MapKeys(m) # {} /\ MapSize(m) >= MAX_CACHE_SIZE) =>
        MapKeys(m) \ MapKeys(m2) = {m[1].k}

\* C10: in each store, inserting a new key at capacity removes exactly one
\* entry, the earliest inserted of those present, and no other.
C10_EvictsEarliest ==
    [][/\ EvictsOldest(pathCache, pathCache')
       /\ EvictsOldest(statCache, statCache')
       /\ EvictsOldest(readdirCache, readdirCache')]_vars

\* The key a store would delete on its next insertion at capacity: the head
\* of cacheKeys, if the store holds it.
NextEvicted(cache, keys) ==
    IF keys # <<>> /\ MapHas(cache, Head(keys)) THEN {Head(keys)} ELSE {}

\* A step that inserts into store m (m2 after the step) and leaves store o
\* (o2 after the step) without an insertion removes nothing from o and does
\* not change what o would evict next.
Independent(m, m2, o, o2) ==
    (MapKeys(m2) \ MapKeys(m) # {} /\ MapKeys(o2) \ MapKeys(o) = {}) =>
        /\ o2 = o
        /\ NextEvicted(o, cacheKeys') = NextEvicted(o, cacheKeys)

\* C11: an insertion into one store removes no entry of another store and
\* does not change which entry another store will evict next.
C11_StoresIndependent ==
    [][/\ Independent(readdirCache, readdirCache', statCache, statCache')
       /\ Independent(statCache, statCache', readdirCache, readdirCache')
       /\ Independent(pathCache, pathCache', statCache, statCache')
       /\ Independent(pathCache, pathCache', readdirCache, readdirCache')]_vars

\* Number of segments of an absolute path below the root.
Depth(p) == Len(NormSegs(Segments(p), <<>>))

\* C12: the loop of a call begins at most depth(start)+1 iterations, a call
\* still in the loop has begun at most depth(start), and a call that has
\* examined the root has left the loop.
C12_IterationBound ==
    \A f \in Frames : ~f.hit =>
        /\ f.iters <= Depth(f.dir0) + 1
        /\ f.pc = "walk" =>
              /\ f.iters <= Depth(f.dir0)
              /\ Root \notin f.visited
        /\ Root \in f.visited => f.pc \in {"returned", "threw"}

\* A start at depth 2 whose walk took three iterations and ended at the root.
C12_Witness ==
    \E f \in Frames :
        /\ ~f.hit /\ f.pc = "returned"
        /\ Depth(f.dir0) = 2
        /\ f.iters = 3
        /\ Root \in f.visited

\* The call walked, found nothing, and no callback result was truthy.
NoMatch(f) ==
    /\ Walked(f)
    /\ ~f.result.def
    /\ \A i \in 1..Len(f.rets) : ~Truthy(f.rets[i])

\* C13 as stated: with no match up to the root, the call returns undefined
\* after examining depth(D)+1 directories when D is a file and depth(D)
\* directories when D is a directory.
C13_AsStated ==
    \A f \in Frames : NoMatch(f) =>
        Len(f.listed) = (IF f.kind0 = "file" THEN Depth(f.dir0) + 1 ELSE Depth(f.dir0))

\* C13 amended: with no match up to the root, a walk that the skip check
\* does not abandon returns undefined after examining every directory from
\* the first examined one to the root: depth(D)+1 directories when the
\* metadata lookup reports D a directory and depth(D) when it does not. A
\* walk that the skip check abandons has examined the directories from the
\* first one to the one at which the check fired, and no more than that.
C13_ExaminedCount ==
    \A f \in Frames : NoMatch(f) =>
        /\ Depth(f.first) = (IF f.isDir THEN Depth(f.dir0) ELSE Depth(f.dir0) - 1)
        /\ ~f.skipped =>
              /\ Len(f.listed) = Depth(f.first) + 1
              /\ Len(f.listed) = (IF f.isDir THEN Depth(f.dir0) + 1 ELSE Depth(f.dir0))
              /\ Last(f.listed) = Root
              /\ f.visited = {f.listed[i] : i \in 1..Len(f.listed)}
        /\ f.skipped =>
              /\ Len(f.listed) <= Depth(f.first) + 1
              /\ SkipHere(Last(f.listed))
              /\ \A i \in 1..(Len(f.listed) - 1) : ~SkipHere(f.listed[i])

\* A file at depth 2 was given and two directories were examined.
C13_Witness ==
    \E f \in Frames :
        /\ NoMatch(f) /\ ~f.skipped
        /\ ~f.isDir /\ f.kind0 = "file"
        /\ Depth(f.dir0) = 2
        /\ Len(f.listed) = 2


\* The keys under which pathCache holds "not found".
NotFoundKeys(m) == {k \in MapKeys(m) : ~MapGet(m, k).def}

\* C14: a "not found" held by pathCache is kept by every step, a change of
\* the filesystem included, and a call begun while pathCache holds "not
\* found" for its key returns "not found" without a walk, whatever the
\* filesystem holds by then.
C14_NoInvalidation ==
    [][ /\ \A k \in NotFoundKeys(pathCache) : k \in NotFoundKeys(pathCache')
        /\ (Len(stack') = Len(stack) + 1 /\ Top'.key \in NotFoundKeys(pathCache)) =>
              /\ Top'.hit
              /\ Top'.pc = "returned"
              /\ Top'.result = Undefined
              /\ Top'.called = <<>> /\ Top'.listed = <<>>
      ]_vars

\* "Not found" was served from pathCache although a walk of the present
\* filesystem finds a match.
C14_Witness ==
    \E f \in Frames :
        /\ f.hit
        /\ f.result = Undefined
        /\ ~escaladeSyncOriginal(fs, f.start, f.cb).threw
        /\ escaladeSyncOriginal(fs, f.start, f.cb).value.def

\* The step is a call's statSync of its start path.
StatRead == Len(stack') = Len(stack) + 1 /\ Top'.nStat = 1

\* The step is an iteration's readdirSync of the directory under examination.
ReaddirRead ==
    /\ stack # <<>>
    /\ Len(stack') = Len(stack)
    /\ Top'.nReaddir = Top.nReaddir + 1

\* C16 as stated: every directory the callback is invoked on is a directory
\* of the filesystem at that moment, and is the path whose metadata the call
\* looked up (the start path: the code looks up no other).
C16_AsStated ==
    \A f \in Frames : \A i \in 1..Len(f.called) :
        /\ FsKind(fs, f.called[i]) = "dir"
        /\ f.called[i] = f.dir0

\* C16 amended: a call looks up the metadata of its start path only, at most
\* once, from statCache when it holds the path; no ancestor is looked up.
\* A directory whose listing the call reads from the filesystem is a
\* directory of the filesystem at that moment (the call raises otherwise);
\* when the callback is invoked on a path that is not a directory of the
\* filesystem at that moment, the listing came from readdirCache.
C16_ExaminedExists ==
    [][ /\ \A i \in 1..Len(stack') : ~stack'[i].hit =>
              /\ stack'[i].nStat <= 1
              /\ stack'[i].nStat = 1 <=> ~stack'[i].statHit
        /\ (ReaddirRead /\ Top'.pc # "threw") =>
              /\ FsKind(fs, Top.dir) = "dir"
              /\ Last(Top'.listed) = Top.dir
              /\ Last(Top'.fresh)
        /\ (/\ stack # <<>>
            /\ Len(stack') = Len(stack)
            /\ Len(Top'.called) = Len(Top.called) + 1
            /\ FsKind(fs, Top.dir) # "dir") =>
              /\ Last(Top'.called) = Top.dir
              /\ ~Last(Top'.fresh)
      ]_vars

\* A start directory that was gone when the call began was handed to the
\* callback from the caches, and its parent was then read from the
\* filesystem.
C16_Witness ==
    \E f \in Frames :
        /\ Len(f.called) >= 2
        /\ f.kind0 = "none"
        /\ f.statHit
        /\ FsKind(fs, f.called[1]) = "none"
        /\ ~f.fresh[1]
        /\ f.fresh[2]
        /\ FsKind(fs, f.called[2]) = "dir"

\* C17: statSync(p) is called only when statCache has no entry for p, and
\* readdirSync(d) only when readdirCache has no entry for d; when the read
\* gives a value, the store holds that value for the path right after.
C17_CacheBeforeFilesystem ==
    [][ /\ StatRead =>
              /\ ~MapHas(statCache, Top'.dir0)
              /\ Top'.pc # "threw" =>
                    /\ MapHas(statCache', Top'.dir0)
                    /\ MapGet(statCache', Top'.dir0) = StatIsDirectory(fs, Top'.dir0)
        /\ ReaddirRead =>
              /\ ~MapHas(readdirCache, Top.dir)
              /\ Top'.pc # "threw" =>
                    /\ MapHas(readdirCache', Top.dir)
                    /\ MapGet(readdirCache', Top.dir) = Readdir(fs, Top.dir)
      ]_vars

\* A call made when the caches were no longer empty has read its start
\* path's metadata and a listing from the filesystem, and both stores hold
\* what was read.
C17_Witness ==
    \E f \in Frames :
        /\ f.nStat = 1
        /\ MapHas(statCache, f.dir0)
        /\ MapGet(statCache, f.dir0) = StatIsDirectory(fs, f.dir0)
        /\ f.listed # <<>>
        /\ Last(f.fresh)
        /\ MapHas(readdirCache, Last(f.listed))
        /\ MapGet(readdirCache, Last(f.listed)) = Readdir(fs, Last(f.listed))
        /\ ~f.cold
        /\ Len(cacheKeys) >= MAX_CACHE_SIZE

\* The step is a call served from pathCache; a call that found its start
\* path in statCache; an iteration that found its listing in readdirCache.
PathHitStep == Len(stack') = Len(stack) + 1 /\ Top'.hit
StatHitStep == Len(stack') = Len(stack) + 1 /\ Top'.statHit
ReaddirHitStep ==
    /\ stack # <<>>
    /\ Len(stack') = Len(stack)
    /\ Len(Top'.fresh) = Len(Top.fresh) + 1
    /\ ~Last(Top'.fresh)

\* C18: a hit on pathCache, statCache or readdirCache leaves that store and
\* the eviction queue as they were, and the queue changes only in a step
\* that inserts what it read from the filesystem.
C18_ReadsDoNotRefresh ==
    [][ /\ PathHitStep =>
              /\ pathCache' = pathCache
              /\ statCache' = statCache /\ readdirCache' = readdirCache
              /\ cacheKeys' = cacheKeys
        /\ StatHitStep => (statCache' = statCache /\ cacheKeys' = cacheKeys)
        /\ ReaddirHitStep => (readdirCache' = readdirCache /\ cacheKeys' = cacheKeys)
        /\ cacheKeys' # cacheKeys =>
              \/ StatRead /\ MapKeys(statCache') \ MapKeys(statCache) # {}
              \/ ReaddirRead /\ MapKeys(readdirCache') \ MapKeys(readdirCache) # {}
      ]_vars

\* A call found its start directory in statCache and the listing in
\* readdirCache, and that directory is still the next key to be evicted.
C18_Witness ==
    \E f \in Frames :
        /\ f.statHit
        /\ f.listed # <<>>
        /\ ~f.fresh[1]
        /\ cacheKeys # <<>>
        /\ Head(cacheKeys) = f.listed[1]

\* C15: after a call with callback cb1 has returned a value, a call whose
\* start resolves to the same path and whose callback cb2 is another
\* function with the same text returns that value from pathCache, and cb2 is
\* not invoked.
C15_TextCollision ==
    \A f \in Frames : \A c \in completed :
        (/\ c[2] # f.cb
         /\ CbText(c[2]) = CbText(f.cb)
         /\ resolve(Cwd, c[1]) = f.dir0) =>
            /\ f.hit
            /\ f.pc = "returned"
            /\ f.result = c[3]
            /\ f.called = <<>> /\ f.rets = <<>>

\* The second callback was answered with the first one's result although,
\* on the filesystem as it is, the two walks end differently.
C15_Witness ==
    \E f \in Frames : \E c \in completed :
        /\ c[2] # f.cb
        /\ CbText(c[2]) = CbText(f.cb)
        /\ c[1] = f.start
        /\ f.hit
        /\ f.result = c[3]
        /\ escaladeSyncOriginal(fs, c[1], c[2]) = Gave(c[3])
        /\ ~escaladeSyncOriginal(fs, f.start, f.cb).threw
        /\ escaladeSyncOriginal(fs, f.start, f.cb) # Gave(c[3])

\* Activation i ends with an exception in this step.
Fails(i) ==
    /\ i <= Len(stack')
    /\ stack'[i].pc = "threw"
    /\ i > Len(stack) \/ stack[i].pc # "threw"

\* C19: the step in which a call ends with an exception (of statSync, of
\* readdirSync or of the callback) leaves pathCache as it was, with no entry
\* for the call's key; and a call begun while pathCache has no entry for its
\* key is not served from pathCache.
C19_FailureStoresNothing ==
    [][ /\ \A i \in 1..(Len(stack) + 1) : Fails(i) =>
              /\ pathCache' = pathCache
              /\ ~MapHas(pathCache', stack'[i].key)
        /\ (Len(stack') = Len(stack) + 1 /\ ~MapHas(pathCache, Top'.key)) =>
              ~Top'.hit
      ]_vars

\* A call that had already failed was made again, walked again, and failed
\* on the callback's exception; pathCache has nothing for it.
C19_Witness ==
    \E f \in Frames :
        /\ <<f.start, f.cb>> \in failed
        /\ ~f.hit
        /\ f.pc = "threw"
        /\ f.called # <<>>
        /\ Last(f.rets) = RetThrow
        /\ ~MapHas(pathCache, f.key)

\* C20 as stated: once pathCache holds a value for a key, every step keeps
\* the key and its value.
C20_AsStated ==
    [][ \A k \in MapKeys(pathCache) :
            /\ MapHas(pathCache', k)
            /\ MapGet(pathCache', k) = MapGet(pathCache, k)
      ]_vars

\* C20 amended: no step removes a key from pathCache, and the value held for
\* a key is replaced only by the result of a call with that key that did not
\* find the key in pathCache when it began and whose callback has itself
\* called the exported function: the value was stored while that call was in
\* progress.  Calls none of which is made from inside a callback never
\* replace a value.
C20_ReplacedByEnclosingCall ==
    [][ \A k \in MapKeys(pathCache) :
            /\ MapHas(pathCache', k)
            /\ MapGet(pathCache', k) # MapGet(pathCache, k) =>
                  /\ stack' # <<>>
                  /\ Top'.key = k
                  /\ ~Top'.hit
                  /\ Top'.nested > 0
                  /\ Top'.pc = "returned"
                  /\ MapGet(pathCache', k) = Top'.result
      ]_vars

\* A call made from inside the callback returned one value for the key, and
\* the enclosing call, ending later, has stored another.
C20_Witness ==
    \E f \in Frames : \E c \in completed :
        /\ f.nested > 0
        /\ f.pc = "returned"
        /\ ~f.hit
        /\ c[2] = f.cb
        /\ resolve(Cwd, c[1]) = f.dir0
        /\ c[3] # f.result
        /\ MapGet(pathCache, f.key) = f.result

\* The (resolved start path, callback text) pair of a call.
KeyPair(start, cb) == <<resolve(Cwd, start), CbText(cb)>>

\* C21: a call is served from pathCache only a value that a call with the
\* same resolved start path and the same callback text has returned: calls
\* whose (path, text) pairs differ have different keys.
C21_KeyInjective ==
    \A f \in Frames : f.hit =>
        \E c \in completed :
            /\ KeyPair(c[1], c[2]) = KeyPair(f.start, f.cb)
            /\ c[3] = f.result

\* The directories whose listing activation f has obtained.
ListedSet(f) == {f.listed[i] : i \in 1..Len(f.listed)}

\* C22: the visited check never ends a walk: on entry to every iteration the
\* directory is not yet in visited, a walk that returns does so on a truthy
\* callback result, on the SKIP_DIRS break or on the root check at the root,
\* and visited is the set of directories whose listing the call has obtained
\* (with, in a call that readdirSync has just ended by raising, the directory
\* it raised on).
C22_GuardNeverFires ==
    \A f \in Frames : ~f.hit =>
        /\ ~f.guard
        /\ f.pc = "walk" => f.dir \notin f.visited
        /\ Walked(f) =>
              \/ Matched(f)
              \/ f.skipped
              \/ Last(f.listed) = Root /\ dirname(Last(f.listed)) = Last(f.listed)
        /\ f.pc # "threw" => f.visited = ListedSet(f)
        /\ f.pc = "threw" =>
              \/ f.visited = ListedSet(f)
              \/ f.visited = ListedSet(f) \cup {f.dir} /\ Last(f.fresh \o <<TRUE>>)
        /\ Cardinality(f.visited) = f.iters

\* A walk of three levels was ended by the root check, each level visited
\* once.
C22_Witness ==
    \E f \in Frames :
        /\ Walked(f)
        /\ ~Matched(f) /\ ~f.skipped /\ ~f.guard
        /\ Len(f.listed) = 3
        /\ Cardinality(f.visited) = 3
        /\ f.visited = ListedSet(f)
        /\ f.iters = 3

====
